---- MODULE Spec2Model ----
(***************************************************************************)
(* A model of robinson's style and layout-box stages (style.rs,           *)
(* layout.rs) and of its DOM serializer and HTML parser (dom.rs).         *)
(*                                                                         *)
(* Rust Strings are sequences of Unicode code points; the parser input is *)
(* the UTF-8 byte sequence of such a string.  Option values are the       *)
(* records Some(v) and None.                                              *)
(***************************************************************************)
EXTENDS Integers, Sequences, FiniteSets, TLC

VARIABLES
    \* layout.rs: one top-level call of build_layout_tree and its call stack
    input, stack, outcome, result, first,
    \* style.rs: an element, a selector and a stylesheet, and what matches
    \* and specified_values returned for them
    elem, selector, stylesheet, matched, values,
    \* dom.rs: a Parser (input, pos), the nodes its input was written from,
    \* how the parse ended, the node at hand (doc), the iteration order of the
    \* attribute HashMaps and the text Display produced
    forest, source, pos, status, consumed, parsed, doc, hashOrder, text

layoutVars == <<input, stack, outcome, result, first>>
styleVars == <<elem, selector, stylesheet, matched, values>>
domVars == <<forest, source, pos, status, consumed, parsed, doc, hashOrder, text>>
vars == <<input, stack, outcome, result, first,
          elem, selector, stylesheet, matched, values,
          forest, source, pos, status, consumed, parsed, doc, hashOrder, text>>

\* ------------------------------------------------------------------------
\* Bounds
\* ------------------------------------------------------------------------
MaxNodes == 4
ExtraDepth == 2

\* ------------------------------------------------------------------------
\* Strings used as keys and keywords
\* ------------------------------------------------------------------------
STR_display == <<100, 105, 115, 112, 108, 97, 121>>
STR_block == <<98, 108, 111, 99, 107>>
STR_none == <<110, 111, 110, 101>>
STR_inline == <<105, 110, 108, 105, 110, 101>>

None == [some |-> FALSE]
Some(v) == [some |-> TRUE, v |-> v]

\* css::Value, the one variant style.rs inspects
Keyword(s) == [kind |-> "Keyword", s |-> s]

\* ------------------------------------------------------------------------
\* style.rs: StyledNode and its display
\* ------------------------------------------------------------------------
EmptyMap == <<>>

MapGet(m, k) == IF k \in DOMAIN m THEN Some(m[k]) ELSE None

StyledNode(specified_values, children) ==
    [specified_values |-> specified_values, children |-> children]

\* StyledNode::value
Value(node, name) == MapGet(node.specified_values, name)

\* StyledNode::display
Display(node) ==
    LET v == Value(node, STR_display) IN
    IF v.some /\ v.v.kind = "Keyword"
    THEN IF v.v.s = STR_block THEN "Block"
         ELSE IF v.v.s = STR_none THEN "None"
         ELSE "Inline"
    ELSE "Inline"

\* ------------------------------------------------------------------------
\* layout.rs: LayoutBox
\* ------------------------------------------------------------------------
NoNode == [absent |-> TRUE]
NoBox == [absent |-> TRUE]

\* LayoutBox::new; node is the StyledNode the BoxType borrows
LayoutBoxNew(box_type, node) ==
    [box_type |-> box_type, node |-> node, children |-> <<>>]

\* the match of build_layout_tree on the node's own display
RootBoxType(d) == IF d = "Block" THEN "BlockNode" ELSE "InlineNode"

\* LayoutBox::get_inline_container, the box after the call
ContainerPush(box) ==
    IF box.box_type \in {"InlineNode", "AnonymousBlock"} THEN box
    ELSE IF Len(box.children) > 0
            /\ box.children[Len(box.children)].box_type = "AnonymousBlock"
         THEN box
         ELSE [box EXCEPT !.children =
                  Append(@, LayoutBoxNew("AnonymousBlock", NoNode))]

\* LayoutBox::get_inline_container, the box the returned reference names
ContainerRef(box) ==
    IF box.box_type \in {"InlineNode", "AnonymousBlock"} THEN "self" ELSE "last"

\* children.push(b) through the reference get_inline_container returned
PushInto(box, ref, b) ==
    IF ref = "self" THEN [box EXCEPT !.children = Append(@, b)]
    ELSE [box EXCEPT !.children[Len(box.children)].children = Append(@, b)]

ChildDispatch_NoWrap(child) ==
    LET d == Display(child) IN
    IF d = "Block" THEN "push" ELSE IF d = "Inline" THEN "push" ELSE "skip"

ChildDispatch_NoneAsBlock(child) ==
    LET d == Display(child) IN
    IF d = "Block" THEN "push" ELSE IF d = "Inline" THEN "container" ELSE "push"

\* the match on child.display() in the loop of build_layout_tree
ChildDispatch(child) ==
    LET d == Display(child) IN
    IF d = "Block" THEN "push" ELSE IF d = "Inline" THEN "container" ELSE "skip"

\* the argument of the recursive call in each arm of that match
Callee(route, style_node, child) ==
    IF route = "container" THEN style_node ELSE child

\* ------------------------------------------------------------------------
\* Styled trees given to build_layout_tree
\* ------------------------------------------------------------------------
PropertyMaps ==
    {EmptyMap} \cup
    {[k \in {STR_display} |-> Keyword(s)] : s \in {STR_block, STR_none, STR_inline}}

RECURSIVE TreesOfSize(_), ForestsOfSize(_)
TreesOfSize(n) ==
    IF n = 0 THEN {}
    ELSE {StyledNode(sv, kids) : sv \in PropertyMaps, kids \in ForestsOfSize(n - 1)}
ForestsOfSize(m) ==
    IF m = 0 THEN {<<>>}
    ELSE UNION {{<<t>> \o f : t \in TreesOfSize(k), f \in ForestsOfSize(m - k)}
                : k \in 1..m}

StyledTrees == UNION {TreesOfSize(n) : n \in 1..MaxNodes}

RECURSIVE Height(_)
Height(node) ==
    LET hs == {Height(node.children[i]) : i \in DOMAIN node.children} IN
    1 + (IF hs = {} THEN 0 ELSE CHOOSE h \in hs : \A g \in hs : g <= h)

\* every legitimate recursion fits: a call chain of distinct nodes is no
\* longer than the tree is high
MaxDepth == MaxNodes + ExtraDepth

RECURSIVE Strip(_)
\* the styled tree without its display:none children and their subtrees
Strip(node) ==
    LET keep == SelectSeq(node.children, LAMBDA c : Display(c) /= "None")
    IN  StyledNode(node.specified_values,
                   [i \in DOMAIN keep |-> Strip(keep[i])])

NotRun == [absent |-> TRUE]
NoRun == [absent |-> TRUE]

\* the layout stage is not exercised
LayoutIdle ==
    /\ input = NotRun /\ stack = <<>> /\ outcome = "idle"
    /\ result = NoBox /\ first = NoRun

\* the parser and the serializer are not exercised
DomIdle ==
    /\ forest = <<>> /\ source = <<>> /\ pos = 0 /\ status = "idle"
    /\ consumed = None /\ parsed = "no" /\ doc = NotRun
    /\ hashOrder = <<>> /\ text = None

\* the style stage is not exercised
StyleIdle ==
    /\ elem = NotRun /\ selector = NotRun /\ stylesheet = <<>>
    /\ matched = None /\ values = None

\* ------------------------------------------------------------------------
\* build_layout_tree as a machine over its call stack
\* ------------------------------------------------------------------------
Frame(style_node) == [style_node |-> style_node, root |-> NoBox, i |-> 1, dest |-> "none"]

Top == stack[Len(stack)]
Running == outcome = "running" /\ Len(stack) > 0
InLoop == Running /\ Top.root /= NoBox /\ Top.i <= Len(Top.style_node.children)
CurChild == Top.style_node.children[Top.i]

InitLayout ==
    /\ input \in StyledTrees
    /\ stack = <<Frame(input)>>
    /\ outcome = "running"
    /\ result = NoBox
    /\ first = NoRun
    /\ StyleIdle
    /\ DomIdle

\* let mut root = LayoutBox::new(match style_node.display() {Block, Inline})
CreateRoot ==
    /\ Running /\ Top.root = NoBox
    /\ Display(Top.style_node) /= "None"
    /\ stack' = [stack EXCEPT ![Len(stack)].root =
                    LayoutBoxNew(RootBoxType(Display(Top.style_node)), Top.style_node)]
    /\ UNCHANGED <<input, outcome, result, first, styleVars, domVars>>

\* Display::None => panic!("Root not has display: none")
PanicRootNone ==
    /\ Running /\ Top.root = NoBox
    /\ Display(Top.style_node) = "None"
    /\ stack' = <<>>
    /\ outcome' = "panic"
    /\ UNCHANGED <<input, result, first, styleVars, domVars>>

\* Display::Block => root.children.push(build_layout_tree(child)): the call
PushBlockChild ==
    /\ InLoop /\ ChildDispatch(CurChild) = "push"
    /\ Len(stack) < MaxDepth
    /\ stack' = Append([stack EXCEPT ![Len(stack)].dest = "direct"],
                       Frame(Callee("push", Top.style_node, CurChild)))
    /\ UNCHANGED <<input, outcome, result, first, styleVars, domVars>>

\* Display::Inline => root.get_inline_container().children.push(
\*     build_layout_tree(style_node)): the container, then the call
PushInlineChild ==
    /\ InLoop /\ ChildDispatch(CurChild) = "container"
    /\ Len(stack) < MaxDepth
    /\ stack' = Append([stack EXCEPT ![Len(stack)].root = ContainerPush(@),
                                     ![Len(stack)].dest = ContainerRef(Top.root)],
                       Frame(Callee("container", Top.style_node, CurChild)))
    /\ UNCHANGED <<input, outcome, result, first, styleVars, domVars>>

\* Display::None => {}
SkipNoneChild ==
    /\ InLoop /\ ChildDispatch(CurChild) = "skip"
    /\ stack' = [stack EXCEPT ![Len(stack)].i = @ + 1]
    /\ UNCHANGED <<input, outcome, result, first, styleVars, domVars>>

\* a recursive call with no stack left: the process aborts
StackOverflow ==
    /\ InLoop /\ ChildDispatch(CurChild) \in {"push", "container"}
    /\ Len(stack) >= MaxDepth
    /\ stack' = <<>>
    /\ outcome' = "overflow"
    /\ UNCHANGED <<input, result, first, styleVars, domVars>>

\* the loop is over: `root` is returned, and the caller pushes it
Return ==
    /\ Running /\ Top.root /= NoBox /\ Top.i > Len(Top.style_node.children)
    /\ IF Len(stack) = 1
       THEN /\ stack' = <<>>
            /\ result' = Top.root
            /\ outcome' = "done"
       ELSE LET caller == stack[Len(stack) - 1]
                pushed == IF caller.dest = "direct"
                          THEN [caller.root EXCEPT !.children = Append(@, Top.root)]
                          ELSE PushInto(caller.root, caller.dest, Top.root)
            IN  /\ stack' = [SubSeq(stack, 1, Len(stack) - 1) EXCEPT
                                ![Len(stack) - 1] =
                                    [caller EXCEPT !.root = pushed,
                                                   !.i = @ + 1,
                                                   !.dest = "none"]]
                /\ UNCHANGED <<result, outcome>>
    /\ UNCHANGED <<input, first, styleVars, domVars>>

\* a second top-level call, on the same tree without its display:none children
BuildStripped ==
    /\ outcome /= "running" /\ first = NoRun
    /\ first' = [node |-> input, outcome |-> outcome, result |-> result]
    /\ input' = Strip(input)
    /\ stack' = <<Frame(Strip(input))>>
    /\ outcome' = "running"
    /\ result' = NoBox
    /\ UNCHANGED <<styleVars, domVars>>

NextLayout ==
    \/ CreateRoot
    \/ PanicRootNone
    \/ PushBlockChild
    \/ PushInlineChild
    \/ SkipNoneChild
    \/ StackOverflow
    \/ Return
    \/ BuildStripped

SpecLayout == InitLayout /\ [][NextLayout]_vars

\* ------------------------------------------------------------------------
\* Properties of the layout box tree
\* ------------------------------------------------------------------------
RECURSIVE NoInlineUnderBlock(_)
NoInlineUnderBlock(box) ==
    /\ box.box_type = "BlockNode" =>
           \A j \in DOMAIN box.children :
               box.children[j].box_type \in {"BlockNode", "AnonymousBlock"}
    /\ \A j \in DOMAIN box.children : NoInlineUnderBlock(box.children[j])

BoxesInPlay ==
    {stack[k].root : k \in DOMAIN stack} \cup {result}
        \cup (IF first = NoRun THEN {} ELSE {first.result})

\* C1: in every box tree, finished or under construction, no Block box has
\* an Inline box as a direct child.
C1_BlockHasNoInlineChild ==
    \A b \in BoxesInPlay \ {NoBox} : NoInlineUnderBlock(b)

\* a Block box under construction holding a Block child and then an
\* AnonymousBlock made for an inline child
C1_Witness ==
    \E k \in DOMAIN stack :
        /\ stack[k].root /= NoBox
        /\ stack[k].root.box_type = "BlockNode"
        /\ Len(stack[k].root.children) = 2
        /\ stack[k].root.children[1].box_type = "BlockNode"
        /\ stack[k].root.children[2].box_type = "AnonymousBlock"
        /\ Display(stack[k].style_node.children[2]) = "Inline"

RECURSIVE Groups(_)
\* the children of a node in document order, display:none ones left out, as
\* one group per block child and one per maximal run of inline children
Groups(kids) ==
    IF kids = <<>> THEN <<>>
    ELSE LET c == kids[Len(kids)]
             before == Groups(SubSeq(kids, 1, Len(kids) - 1))
         IN  IF Display(c) = "None" THEN before
             ELSE IF Display(c) = "Block"
                  THEN Append(before, [block |-> TRUE, members |-> <<c>>])
             ELSE IF before /= <<>> /\ ~before[Len(before)].block
                  THEN [before EXCEPT ![Len(before)].members = Append(@, c)]
                  ELSE Append(before, [block |-> FALSE, members |-> <<c>>])

GroupedAs(box, node) ==
    LET gs == Groups(node.children) IN
    /\ box.box_type = "BlockNode"
    /\ box.node = node
    /\ Len(box.children) = Len(gs)
    /\ \A j \in DOMAIN gs :
         IF gs[j].block
         THEN /\ box.children[j].box_type = "BlockNode"
              /\ box.children[j].node = gs[j].members[1]
         ELSE /\ box.children[j].box_type = "AnonymousBlock"
              /\ Len(box.children[j].children) = Len(gs[j].members)
              /\ \A m \in DOMAIN gs[j].members :
                   /\ box.children[j].children[m].box_type = "InlineNode"
                   /\ box.children[j].children[m].node = gs[j].members[m]

\* C2: the call on a display:block node returns a Block box whose children
\* are one Block box per block child and one AnonymousBlock per run of
\* inline children, each holding one box per inline child of the run.
C2_BlockChildrenGrouped ==
    (outcome /= "running" /\ Display(input) = "Block") =>
        (outcome = "done" /\ GroupedAs(result, input))

\* C3: a call on a node whose own display is none does not crash; it
\* reports an error and returns no box.
C3_RootNoneIsError ==
    Display(input) = "None" => (outcome /= "panic" /\ result = NoBox)

RECURSIVE OverStripped(_)
\* a box tree with every node it borrows replaced by that node stripped
OverStripped(box) ==
    IF box = NoBox THEN NoBox
    ELSE [box_type |-> box.box_type,
          node |-> IF box.node = NoNode THEN NoNode ELSE Strip(box.node),
          children |-> [j \in DOMAIN box.children |-> OverStripped(box.children[j])]]

\* C5: the call on a styled tree and the call on that tree without its
\* display:none children (and their subtrees) end the same way with the
\* same box tree.
C5_NoneChildrenLeaveNoBox ==
    (first /= NoRun /\ outcome /= "running") =>
        /\ outcome = first.outcome
        /\ result = OverStripped(first.result)

\* both calls returned; the tree had a display:none child with a child of
\* its own, and the box has fewer children than the node
C5_Witness ==
    /\ first /= NoRun /\ outcome = "done"
    /\ \E i \in DOMAIN first.node.children :
          /\ Display(first.node.children[i]) = "None"
          /\ Len(first.node.children[i].children) > 0
    /\ Len(first.result.children) < Len(first.node.children)
    /\ Len(first.result.children) > 0

\* C9: the recursion is never deeper than the styled tree is high, and the
\* call comes to an end.
C9_DepthBoundedByHeight ==
    /\ Len(stack) <= Height(input)
    /\ outcome /= "overflow"

\* ------------------------------------------------------------------------
\* dom.rs: ElementData
\* ------------------------------------------------------------------------
STR_id == <<105, 100>>
STR_class == <<99, 108, 97, 115, 115>>
STR_color == <<99, 111, 108, 111, 114>>
STR_p == <<112>>
STR_d == <<100>>
STR_x == <<120>>
STR_y == <<121>>
STR_a == <<97>>
STR_b == <<98>>

ElementData(tag_name, attributes) == [tag_name |-> tag_name, attributes |-> attributes]

MapInsert(m, k, v) == [x \in DOMAIN m \cup {k} |-> IF x = k THEN v ELSE m[x]]

\* ElementData::id
ElemId(e) == MapGet(e.attributes, STR_id)

RECURSIVE Split(_, _)
\* str::split(sep): the pieces between separators, empty pieces included
Split(s, sep) ==
    IF \A i \in DOMAIN s : s[i] /= sep THEN <<s>>
    ELSE LET i == CHOOSE j \in DOMAIN s :
                      s[j] = sep /\ \A k \in 1..(j - 1) : s[k] /= sep
         IN  <<SubSeq(s, 1, i - 1)>> \o Split(SubSeq(s, i + 1, Len(s)), sep)

Range(q) == {q[i] : i \in DOMAIN q}

\* ElementData::classes
Classes(e) ==
    LET c == MapGet(e.attributes, STR_class) IN
    IF c.some THEN Range(Split(c.v, 32)) ELSE {}

\* ------------------------------------------------------------------------
\* css: selectors, specificity, rules
\* ------------------------------------------------------------------------
SimpleSelector(tag_name, id, class) == [tag_name |-> tag_name, id |-> id, class |-> class]

\* Selector::specificity: (ids, classes, tags)
Specificity(sel) ==
    <<IF sel.id.some THEN 1 ELSE 0,
      Cardinality(sel.class),
      IF sel.tag_name.some THEN 1 ELSE 0>>

\* Ord on (usize, usize, usize): -1, 0 or 1
CmpSpecificity(a, b) ==
    IF a[1] /= b[1] THEN (IF a[1] < b[1] THEN -1 ELSE 1)
    ELSE IF a[2] /= b[2] THEN (IF a[2] < b[2] THEN -1 ELSE 1)
    ELSE IF a[3] /= b[3] THEN (IF a[3] < b[3] THEN -1 ELSE 1)
    ELSE 0

Rule(selectors, declarations) == [selectors |-> selectors, declarations |-> declarations]
Declaration(name, value) == [name |-> name, value |-> value]

\* ------------------------------------------------------------------------
\* style.rs: selector matching and the cascade
\* ------------------------------------------------------------------------
\* matches_simple_selector
MatchesSimpleSelector(e, sel) ==
    IF sel.tag_name.some /\ e.tag_name /= sel.tag_name.v THEN FALSE
    ELSE IF sel.id.some /\ ElemId(e) /= Some(sel.id.v) THEN FALSE
    ELSE IF \E c \in sel.class : c \notin Classes(e) THEN FALSE
    ELSE TRUE

\* matches
Matches(e, sel) == MatchesSimpleSelector(e, sel)

\* match_rule: the first selector of the rule that matches
MatchRule(e, rule) ==
    LET hits == {i \in DOMAIN rule.selectors : Matches(e, rule.selectors[i])} IN
    IF hits = {} THEN None
    ELSE LET i == CHOOSE j \in hits : \A k \in hits : j <= k
         IN  Some(<<Specificity(rule.selectors[i]), rule>>)

RECURSIVE MatchingRules(_, _)
\* matching_rules: filter_map over the rules, in stylesheet order
MatchingRules(e, rules) ==
    IF rules = <<>> THEN <<>>
    ELSE LET before == MatchingRules(e, SubSeq(rules, 1, Len(rules) - 1))
             m == MatchRule(e, rules[Len(rules)])
         IN  IF m.some THEN Append(before, m.v) ELSE before

SortInsert_Unstable(sorted, x) ==
    LET k == Cardinality({i \in DOMAIN sorted : CmpSpecificity(sorted[i][1], x[1]) < 0})
    IN  SubSeq(sorted, 1, k) \o <<x>> \o SubSeq(sorted, k + 1, Len(sorted))

\* one step of the stable sort: x goes after every element not greater
SortInsert(sorted, x) ==
    LET k == Cardinality({i \in DOMAIN sorted : CmpSpecificity(sorted[i][1], x[1]) <= 0})
    IN  SubSeq(sorted, 1, k) \o <<x>> \o SubSeq(sorted, k + 1, Len(sorted))

RECURSIVE SortBySpecificity(_)
\* rules.sort_by(|&(a, _), &(b, _)| a.cmp(&b)), a stable sort
SortBySpecificity(rules) ==
    IF rules = <<>> THEN <<>>
    ELSE SortInsert(SortBySpecificity(SubSeq(rules, 1, Len(rules) - 1)),
                    rules[Len(rules)])

RECURSIVE InsertDeclarations(_, _)
\* for declaration in &rule.declarations { values.insert(name, value) }
InsertDeclarations(m, decls) ==
    IF decls = <<>> THEN m
    ELSE InsertDeclarations(MapInsert(m, decls[1].name, decls[1].value),
                            SubSeq(decls, 2, Len(decls)))

RECURSIVE FoldRules(_, _)
\* for (_, rule) in rules { ... }
FoldRules(m, rules) ==
    IF rules = <<>> THEN m
    ELSE FoldRules(InsertDeclarations(m, rules[1][2].declarations),
                   SubSeq(rules, 2, Len(rules)))

\* specified_values
SpecifiedValues(e, sheet) ==
    FoldRules(EmptyMap, SortBySpecificity(MatchingRules(e, sheet)))

\* ------------------------------------------------------------------------
\* Inputs of the style stage
\* ------------------------------------------------------------------------
MaxClassLen == 2
MaxRules == 3

ClassChars == {97, 98, 32, 9, 10}

RECURSIVE StringsUpTo(_, _)
StringsUpTo(chars, n) ==
    IF n = 0 THEN {<<>>}
    ELSE LET shorter == StringsUpTo(chars, n - 1)
         IN  shorter \cup {Append(t, c) : t \in shorter, c \in chars}

AttrMaps(ids, classes) ==
    {<<>>}
      \cup {[k \in {STR_id} |-> i] : i \in ids}
      \cup {[k \in {STR_class} |-> c] : c \in classes}
      \cup {[k \in {STR_id, STR_class} |-> IF k = STR_id THEN i ELSE c]
              : i \in ids, c \in classes}

MatchElements ==
    {ElementData(t, a) : t \in {STR_p, STR_d},
                         a \in AttrMaps({STR_x, STR_y}, StringsUpTo(ClassChars, MaxClassLen))}

MatchSelectors ==
    {SimpleSelector(t, i, c) : t \in {None, Some(STR_p)},
                               i \in {None, Some(STR_x)},
                               c \in SUBSET {STR_a, STR_b}}

InitMatch ==
    /\ elem \in MatchElements
    /\ selector \in MatchSelectors
    /\ stylesheet = <<>>
    /\ matched = None
    /\ values = None
    /\ LayoutIdle
    /\ DomIdle

\* a call of matches(elem, selector)
CallMatches ==
    /\ elem /= NotRun /\ selector /= NotRun /\ matched = None
    /\ matched' = Some(Matches(elem, selector))
    /\ UNCHANGED <<elem, selector, stylesheet, values, layoutVars, domVars>>

\* a call of specified_values(elem, stylesheet)
CallSpecifiedValues ==
    /\ elem /= NotRun /\ values = None
    /\ values' = Some(SpecifiedValues(elem, stylesheet))
    /\ UNCHANGED <<elem, selector, stylesheet, matched, layoutVars, domVars>>

NextStyle ==
    \/ CallMatches
    \/ CallSpecifiedValues

SpecMatch == InitMatch /\ [][NextStyle]_vars

\* the whitespace-separated words of a string
Words(s) ==
    LET ws == {32, 9, 10} IN
    {SubSeq(s, ij[1], ij[2]) : ij \in
        {ij \in (DOMAIN s) \X (DOMAIN s) :
            /\ ij[1] <= ij[2]
            /\ \A k \in ij[1]..ij[2] : s[k] \notin ws
            /\ (ij[1] = 1 \/ s[ij[1] - 1] \in ws)
            /\ (ij[2] = Len(s) \/ s[ij[2] + 1] \in ws)}}

ClassSet(e) ==
    IF STR_class \in DOMAIN e.attributes THEN Words(e.attributes[STR_class]) ELSE {}

\* C6: matches is true exactly when the tag constraint, the id constraint
\* and the class constraints all hold, the element's classes being the
\* whitespace-separated words of its class attribute.
C6_MatchesIsTagIdAndClasses ==
    matched.some =>
        (matched.v <=>
            /\ (~selector.tag_name.some \/ selector.tag_name.v = elem.tag_name)
            /\ (~selector.id.some
                  \/ (STR_id \in DOMAIN elem.attributes
                        /\ elem.attributes[STR_id] = selector.id.v))
            /\ selector.class \subseteq ClassSet(elem))

\* ------------------------------------------------------------------------
\* Inputs of the cascade
\* ------------------------------------------------------------------------
SelP == SimpleSelector(Some(STR_p), None, {})
SelD == SimpleSelector(Some(STR_d), None, {})
SelX == SimpleSelector(None, Some(STR_x), {})
SelA == SimpleSelector(None, None, {STR_a})

SelectorLists == {<<SelP>>, <<SelX>>, <<SelA>>, <<SelP, SelX>>, <<SelD, SelX>>, <<>>}

DeclarationLists ==
    {<<Declaration(STR_display, Keyword(STR_block))>>,
     <<Declaration(STR_display, Keyword(STR_none))>>,
     <<Declaration(STR_color, Keyword(STR_block)),
       Declaration(STR_display, Keyword(STR_inline))>>}

Rules == {Rule(sl, dl) : sl \in SelectorLists, dl \in DeclarationLists}

RECURSIVE SheetsUpTo(_)
SheetsUpTo(n) ==
    IF n = 0 THEN {<<>>}
    ELSE LET shorter == SheetsUpTo(n - 1)
         IN  shorter \cup {Append(sh, r) : sh \in shorter, r \in Rules}

CascadeElements ==
    {ElementData(STR_p, <<>>),
     ElementData(STR_p, [k \in {STR_id, STR_class} |-> IF k = STR_id THEN STR_x ELSE STR_a]),
     ElementData(STR_d, [k \in {STR_id} |-> STR_x])}

InitCascade ==
    /\ elem \in CascadeElements
    /\ selector \in {SelP}
    /\ stylesheet \in SheetsUpTo(MaxRules)
    /\ matched = None
    /\ values = None
    /\ LayoutIdle
    /\ DomIdle

SpecCascade == InitCascade /\ [][NextStyle]_vars

PropertyNames == {STR_display, STR_color}

Declares(rule, p) == \E k \in DOMAIN rule.declarations : rule.declarations[k].name = p

\* the value a rule gives a property: that of its last declaration of it
DeclaredValue(rule, p) ==
    LET ks == {k \in DOMAIN rule.declarations : rule.declarations[k].name = p}
    IN  rule.declarations[CHOOSE k \in ks : \A l \in ks : l <= k].value

MatchesRule(e, rule) == \E k \in DOMAIN rule.selectors : Matches(e, rule.selectors[k])

\* the specificity of a rule for an element: that of its first selector,
\* in declared order, that matches the element
RuleSpecificity(e, rule) ==
    Specificity(rule.selectors[
        CHOOSE k \in DOMAIN rule.selectors :
            /\ Matches(e, rule.selectors[k])
            /\ \A l \in 1..(k - 1) : ~Matches(e, rule.selectors[l])])

Candidates(e, sheet, p) ==
    {i \in DOMAIN sheet : MatchesRule(e, sheet[i]) /\ Declares(sheet[i], p)}

\* rule i is above rule j in the order (specificity, position)
Above(e, sheet, i, j) ==
    LET c == CmpSpecificity(RuleSpecificity(e, sheet[i]), RuleSpecificity(e, sheet[j]))
    IN  c > 0 \/ (c = 0 /\ i > j)

\* C4: specified_values maps each property to the value declared by the
\* greatest rule, in the order (specificity, position), among the rules
\* that match the element and declare the property; the property is absent
\* iff there is no such rule.
C4_CascadeWinner ==
    values.some =>
        \A p \in PropertyNames :
            LET cands == Candidates(elem, stylesheet, p) IN
            /\ (p \in DOMAIN values.v) <=> (cands /= {})
            /\ cands /= {} =>
                 LET w == CHOOSE i \in cands :
                              \A j \in cands \ {i} : Above(elem, stylesheet, i, j)
                 IN  values.v[p] = DeclaredValue(stylesheet[w], p)

\* specified_values has run on a sheet where an id rule comes before a tag
\* rule and two tag rules tie, all declaring display with different values
C4_Witness ==
    /\ values.some
    /\ \E i, j, k \in DOMAIN stylesheet :
          /\ i < j /\ j < k
          /\ {i, j, k} \subseteq Candidates(elem, stylesheet, STR_display)
          /\ RuleSpecificity(elem, stylesheet[i]) = <<1, 0, 0>>
          /\ RuleSpecificity(elem, stylesheet[j]) = <<0, 0, 1>>
          /\ RuleSpecificity(elem, stylesheet[k]) = <<0, 0, 1>>
          /\ DeclaredValue(stylesheet[j], STR_display)
                /= DeclaredValue(stylesheet[k], STR_display)
          /\ DeclaredValue(stylesheet[i], STR_display)
                /= DeclaredValue(stylesheet[k], STR_display)
          /\ values.v[STR_display] = DeclaredValue(stylesheet[i], STR_display)

\* ------------------------------------------------------------------------
\* dom.rs: Node and its Display
\* ------------------------------------------------------------------------
STR_html == <<104, 116, 109, 108>>
STR_ab == <<97, 98>>
STR_c == <<99>>
STR_div == <<100, 105, 118>>

\* dom::text
TextNode(data) == [kind |-> "Text", text |-> data, children |-> <<>>]

\* dom::elem
ElemNode(name, attrs, children) ==
    [kind |-> "Element", tag_name |-> name, attributes |-> attrs, children |-> children]

RECURSIVE CmpStr(_, _)
\* Ord on String: -1, 0 or 1
CmpStr(a, b) ==
    IF a = <<>> THEN (IF b = <<>> THEN 0 ELSE -1)
    ELSE IF b = <<>> THEN 1
    ELSE IF a[1] /= b[1] THEN (IF a[1] < b[1] THEN -1 ELSE 1)
    ELSE CmpStr(Tail(a), Tail(b))

\* Ord on (&String, &String)
CmpAttr(x, y) == IF CmpStr(x[1], y[1]) /= 0 THEN CmpStr(x[1], y[1]) ELSE CmpStr(x[2], y[2])

RECURSIVE AscendingNames(_)
\* the names of a set in ascending order
AscendingNames(names) ==
    IF names = {} THEN <<>>
    ELSE LET least == CHOOSE n \in names : \A o \in names : CmpStr(n, o) <= 0
         IN  <<least>> \o AscendingNames(names \ {least})

\* elem.attributes.iter().collect(): the entries in the map's own order,
\* which hashOrder gives for the names it lists
IterAttrs(attrs, order) ==
    LET names == SelectSeq(order, LAMBDA n : n \in DOMAIN attrs)
                   \o AscendingNames(DOMAIN attrs \ Range(order))
    IN  [i \in DOMAIN names |-> <<names[i], attrs[names[i]]>>]

RECURSIVE SortAttrs(_)
SortAttrs_Unsorted(entries) == entries

\* attrs.sort()
SortAttrs(entries) ==
    IF entries = <<>> THEN <<>>
    ELSE LET x == entries[Len(entries)]
             sorted == SortAttrs(SubSeq(entries, 1, Len(entries) - 1))
             k == Cardinality({i \in DOMAIN sorted : CmpAttr(sorted[i], x) <= 0})
         IN  SubSeq(sorted, 1, k) \o <<x>> \o SubSeq(sorted, k + 1, Len(sorted))

RECURSIVE FmtAttrs(_, _)
\* for (name, value) in attrs { s = format!("{} {}=\"{}\"", s, name, value) }
FmtAttrs(s, entries) ==
    IF entries = <<>> THEN s
    ELSE FmtAttrs(s \o <<32>> \o entries[1][1] \o <<61, 34>> \o entries[1][2] \o <<34>>,
                  Tail(entries))

RECURSIVE Fmt(_, _), FmtChildren(_, _, _)
\* for node in &self.children { s = format!("{}{}", s, node) }
FmtChildren(s, children, order) ==
    IF children = <<>> THEN s
    ELSE FmtChildren(s \o Fmt(children[1], order), Tail(children), order)

\* impl Display for Node
Fmt(n, order) ==
    IF n.kind = "Text" THEN n.text
    ELSE <<60>> \o n.tag_name
           \o FmtAttrs(<<>>, SortAttrs(IterAttrs(n.attributes, order)))
           \o <<62>>
           \o FmtChildren(<<>>, n.children, order)
           \o <<60, 47>> \o n.tag_name \o <<62>>

\* ------------------------------------------------------------------------
\* Documents given to Display
\* ------------------------------------------------------------------------
MaxDocNodes == 3

AttrNames == {STR_a, STR_ab, STR_c}

Orders(S) ==
    {q \in [1..Cardinality(S) -> S] : \A i, j \in DOMAIN q : q[i] = q[j] => i = j}

AttrValueOf(name) == IF name = STR_a THEN STR_b ELSE IF name = STR_c THEN STR_d ELSE STR_x

DocAttrMaps == {[n \in names |-> AttrValueOf(n)] : names \in SUBSET AttrNames}

RECURSIVE DocsOfSize(_), DocForestsOfSize(_)
DocsOfSize(n) ==
    IF n = 0 THEN {}
    ELSE (IF n = 1 THEN {TextNode(STR_x)} ELSE {})
           \cup {ElemNode(STR_p, a, kids) : a \in DocAttrMaps, kids \in DocForestsOfSize(n - 1)}
DocForestsOfSize(m) ==
    IF m = 0 THEN {<<>>}
    ELSE UNION {{<<t>> \o f : t \in DocsOfSize(k), f \in DocForestsOfSize(m - k)}
                : k \in 1..m}

\* the node of tests::display_simple
DisplaySimpleNode ==
    ElemNode(STR_div, <<>>,
        <<ElemNode(<<104, 49>>, <<>>, <<TextNode(<<104, 49, 32, 116, 101, 120, 116>>)>>),
          ElemNode(<<104, 50>>, <<>>, <<TextNode(<<104, 50, 32, 116, 101, 120, 116>>)>>),
          ElemNode(<<104, 51>>, <<>>, <<TextNode(<<104, 51, 32, 116, 101, 120, 116>>)>>)>>)

\* the node of tests::display_attr
DisplayAttrNode ==
    ElemNode(STR_div, [n \in {STR_a, STR_c} |-> AttrValueOf(n)], <<>>)

DisplayDocs ==
    UNION {DocsOfSize(n) : n \in 1..MaxDocNodes} \cup {DisplaySimpleNode, DisplayAttrNode}

InitDisplay ==
    /\ doc \in DisplayDocs
    /\ hashOrder \in Orders(AttrNames)
    /\ text = None
    /\ forest = <<>> /\ source = <<>> /\ pos = 0 /\ status = "idle"
    /\ consumed = None /\ parsed = "no"
    /\ LayoutIdle
    /\ StyleIdle

\* format!("{}", node)
Format ==
    /\ doc /= NotRun /\ text = None
    /\ text' = Some(Fmt(doc, hashOrder))
    /\ UNCHANGED <<forest, source, pos, status, consumed, parsed, doc, hashOrder,
                   layoutVars, styleVars>>

NextDisplay == Format

SpecDisplay == InitDisplay /\ [][NextDisplay]_vars

RECURSIVE Concat(_)
Concat(strs) == IF strs = <<>> THEN <<>> ELSE strs[1] \o Concat(Tail(strs))

RECURSIVE Serialized(_)
\* the text form of a node: attributes in ascending order of name
Serialized(n) ==
    IF n.kind = "Text" THEN n.text
    ELSE LET names == AscendingNames(DOMAIN n.attributes)
         IN  <<60>> \o n.tag_name
               \o Concat([i \in DOMAIN names |->
                            <<32>> \o names[i] \o <<61, 34>> \o n.attributes[names[i]] \o <<34>>])
               \o <<62>>
               \o Concat([i \in DOMAIN n.children |-> Serialized(n.children[i])])
               \o <<60, 47>> \o n.tag_name \o <<62>>

\* C8: Display writes a text node as its text and an element as its tag,
\* its attributes in ascending order of name, its children in order and
\* its closing tag, whatever the iteration order of the attribute map.
C8_DisplaySortsAttributes ==
    text.some =>
        /\ text.v = Serialized(doc)
        /\ doc = DisplayAttrNode => text.v = <<60, 100, 105, 118, 32, 97, 61, 34, 98, 34, 32, 99, 61, 34, 100, 34, 62, 60, 47, 100, 105, 118, 62>>
        /\ doc = DisplaySimpleNode =>
             text.v = <<60, 100, 105, 118, 62, 60, 104, 49, 62, 104, 49, 32, 116, 101, 120, 116, 60, 47, 104, 49, 62, 60, 104, 50, 62, 104, 50, 32, 116, 101, 120, 116, 60, 47, 104, 50, 62, 60, 104, 51, 62, 104, 51, 32, 116, 101, 120, 116, 60, 47, 104, 51, 62, 60, 47, 100, 105, 118, 62>>

\* an element with the attributes a and c, the map yielding c before a,
\* has been written
C8_Witness ==
    /\ text.some
    /\ doc = DisplayAttrNode
    /\ hashOrder = <<STR_c, STR_ab, STR_a>>

\* ------------------------------------------------------------------------
\* UTF-8: the bytes of a String
\* ------------------------------------------------------------------------
\* char::len_utf8
LenUtf8(c) == IF c < 128 THEN 1 ELSE IF c < 2048 THEN 2 ELSE IF c < 65536 THEN 3 ELSE 4

Utf8(c) ==
    IF c < 128 THEN <<c>>
    ELSE IF c < 2048 THEN <<192 + (c \div 64), 128 + (c % 64)>>
    ELSE IF c < 65536
         THEN <<224 + (c \div 4096), 128 + ((c \div 64) % 64), 128 + (c % 64)>>
         ELSE <<240 + (c \div 262144), 128 + ((c \div 4096) % 64),
                128 + ((c \div 64) % 64), 128 + (c % 64)>>

RECURSIVE Bytes(_)
\* the bytes of a String
Bytes(str) == IF str = <<>> THEN <<>> ELSE Utf8(str[1]) \o Bytes(Tail(str))

\* str::is_char_boundary; p is a byte offset from 0
IsCharBoundary(b, p) ==
    \/ p = 0
    \/ p = Len(b)
    \/ (p < Len(b) /\ b[p + 1] \notin 128..191)

\* the width of the character whose first byte is lead
WidthOfLead(lead) ==
    IF lead < 128 THEN 1 ELSE IF lead < 224 THEN 2 ELSE IF lead < 240 THEN 3 ELSE 4

\* the character that starts at byte offset p
CharAt(b, p) ==
    LET w == WidthOfLead(b[p + 1]) IN
    IF w = 1 THEN b[p + 1]
    ELSE IF w = 2 THEN (b[p + 1] - 192) * 64 + (b[p + 2] - 128)
    ELSE IF w = 3
         THEN (b[p + 1] - 224) * 4096 + (b[p + 2] - 128) * 64 + (b[p + 3] - 128)
         ELSE (b[p + 1] - 240) * 262144 + (b[p + 2] - 128) * 4096
                + (b[p + 3] - 128) * 64 + (b[p + 4] - 128)

\* ------------------------------------------------------------------------
\* dom.rs: Parser.  Each method is an operator of (input, pos) that gives
\* Ok(pos, v), the position after it and its value, or Panic.
\* ------------------------------------------------------------------------
Ok(p, v) == [ok |-> TRUE, pos |-> p, v |-> v]
Panic == [ok |-> FALSE]

\* &self.input[self.pos..] can be taken
Sliceable(b, p) == p <= Len(b) /\ IsCharBoundary(b, p)

\* Parser::eof
Eof(b, p) == p >= Len(b)

\* Parser::next_char
NextChar(b, p) ==
    IF ~Sliceable(b, p) \/ p = Len(b) THEN Panic ELSE Ok(p, CharAt(b, p))

\* Parser::starts_with
StartsWith(b, p, s) ==
    IF ~Sliceable(b, p) THEN Panic
    ELSE Ok(p, p + Len(s) <= Len(b) /\ SubSeq(b, p + 1, p + Len(s)) = s)

\* Parser::consume_char
ConsumeChar(b, p) ==
    IF ~Sliceable(b, p) \/ p = Len(b) THEN Panic
    ELSE LET w == WidthOfLead(b[p + 1])
             next_pos == IF p + w < Len(b) THEN w ELSE 1
         IN  Ok(p + next_pos, CharAt(b, p))

\* the closures given to consume_while
IsAsciiWhitespace == [kind |-> "whitespace"]
IsAlphanumeric == [kind |-> "alphanumeric"]
IsNot(c) == [kind |-> "not", c |-> c]

TestChar(test, c) ==
    IF test.kind = "whitespace" THEN c \in {9, 10, 12, 13, 32}
    ELSE IF test.kind = "alphanumeric" THEN c \in (97..122) \cup (65..90) \cup (48..57)
    ELSE c /= test.c

\* the rest of a method runs on what a step gave, unless the step panicked
Then(r, Rest(_)) == IF r.ok THEN Rest(r) ELSE Panic

RECURSIVE ConsumeWhileFrom(_, _, _, _)
\* while !self.eof() && test(self.next_char()) { result.push(self.consume_char()) }
ConsumeWhileFrom(b, p, test, acc) ==
    IF Eof(b, p) THEN Ok(p, acc)
    ELSE Then(NextChar(b, p), LAMBDA n :
           IF ~TestChar(test, n.v) THEN Ok(p, acc)
           ELSE Then(ConsumeChar(b, p), LAMBDA c :
                  ConsumeWhileFrom(b, c.pos, test, Append(acc, c.v))))

\* Parser::consume_while
ConsumeWhile(b, p, test) == ConsumeWhileFrom(b, p, test, <<>>)

\* Parser::consume_whitespace
ConsumeWhitespace(b, p) == ConsumeWhile(b, p, IsAsciiWhitespace)

\* Parser::parse_tag_name
ParseTagName(b, p) == ConsumeWhile(b, p, IsAlphanumeric)

\* assert!(cond)
Require(cond, r) == IF cond THEN r ELSE Panic

\* assert!(self.consume_char() == c)
Expect(b, p, c) == Then(ConsumeChar(b, p), LAMBDA r : Require(r.v = c, r))

\* Parser::parse_attr_value
ParseAttrValue(b, p) ==
    Then(ConsumeChar(b, p), LAMBDA open_quote :
    Then(Require(open_quote.v \in {34, 39}, open_quote), LAMBDA asserted :
    Then(ConsumeWhile(b, open_quote.pos, IsNot(open_quote.v)), LAMBDA value :
    Then(Expect(b, value.pos, open_quote.v), LAMBDA close :
        Ok(close.pos, value.v)))))

\* Parser::parse_attr
ParseAttr(b, p) ==
    Then(ParseTagName(b, p), LAMBDA name :
    Then(Expect(b, name.pos, 61), LAMBDA eq :
    Then(ParseAttrValue(b, eq.pos), LAMBDA value :
        Ok(value.pos, <<name.v, value.v>>))))

RECURSIVE ParseAttributesFrom(_, _, _)
\* loop { consume_whitespace; if next_char() == '>' { break }; insert(parse_attr()) }
ParseAttributesFrom(b, p, attributes) ==
    Then(ConsumeWhitespace(b, p), LAMBDA ws :
    Then(NextChar(b, ws.pos), LAMBDA n :
        IF n.v = 62 THEN Ok(ws.pos, attributes)
        ELSE Then(ParseAttr(b, ws.pos), LAMBDA a :
               ParseAttributesFrom(b, a.pos, MapInsert(attributes, a.v[1], a.v[2])))))

\* Parser::parse_attributes
ParseAttributes(b, p) == ParseAttributesFrom(b, p, EmptyMap)

\* Parser::parse_text
ParseText(b, p) ==
    Then(ConsumeWhile(b, p, IsNot(60)), LAMBDA t : Ok(t.pos, TextNode(t.v)))

RECURSIVE ParseNode(_, _), ParseElement(_, _), ParseNodesFrom(_, _, _)

\* Parser::parse_node
ParseNode(b, p) ==
    Then(NextChar(b, p), LAMBDA n :
        IF n.v = 60 THEN ParseElement(b, p) ELSE ParseText(b, p))

\* the closing tag of Parser::parse_element
ParseClosingTag(b, p, tag_name) ==
    Then(Expect(b, p, 60), LAMBDA lt :
    Then(Expect(b, lt.pos, 47), LAMBDA slash :
    Then(ParseTagName(b, slash.pos), LAMBDA name :
    Then(Require(name.v = tag_name, name), LAMBDA same :
        Expect(b, name.pos, 62)))))

\* Parser::parse_element
ParseElement(b, p) ==
    Then(Expect(b, p, 60), LAMBDA lt :
    Then(ParseTagName(b, lt.pos), LAMBDA tag_name :
    Then(ParseAttributes(b, tag_name.pos), LAMBDA attrs :
    Then(Expect(b, attrs.pos, 62), LAMBDA gt :
    Then(ParseNodesFrom(b, gt.pos, <<>>), LAMBDA children :
    Then(ParseClosingTag(b, children.pos, tag_name.v), LAMBDA close :
        Ok(close.pos, ElemNode(tag_name.v, attrs.v, children.v))))))))

\* loop { consume_whitespace; if eof() || starts_with("</") { break }; push(parse_node()) }
ParseNodesFrom(b, p, nodes) ==
    Then(ConsumeWhitespace(b, p), LAMBDA ws :
        IF Eof(b, ws.pos) THEN Ok(ws.pos, nodes)
        ELSE Then(StartsWith(b, ws.pos, <<60, 47>>), LAMBDA closing :
               IF closing.v THEN Ok(ws.pos, nodes)
               ELSE Then(ParseNode(b, ws.pos), LAMBDA n :
                      ParseNodesFrom(b, n.pos, Append(nodes, n.v)))))

\* Parser::parse_nodes
ParseNodes(b, p) == ParseNodesFrom(b, p, <<>>)

\* Parser::parse
Parse(src) ==
    Then(ParseNodes(src, 0), LAMBDA nodes :
        IF Len(nodes.v) = 1 THEN Ok(nodes.pos, nodes.v[1])
        ELSE Ok(nodes.pos, ElemNode(STR_html, EmptyMap, nodes.v)))

\* ------------------------------------------------------------------------
\* Sources given to the parser
\* ------------------------------------------------------------------------
MaxSourceNodes == 3

STR_eacute == <<233>>

SourceAttrMaps == {EmptyMap, [n \in {STR_a} |-> STR_b]}

\* text is followed by an element or by nothing: two texts in a row, or a
\* text and white space, would be a single text
NoTextBeforeText(f) ==
    \A i \in DOMAIN f :
        (f[i].kind = "Text" /\ i < Len(f)) => f[i + 1].kind = "Element"

RECURSIVE SourceDocsOfSize(_), SourceForestsOfSize(_)
SourceDocsOfSize(n) ==
    IF n = 0 THEN {}
    ELSE (IF n = 1 THEN {TextNode(STR_x), TextNode(STR_eacute)} ELSE {})
           \cup {ElemNode(STR_p, a, kids) :
                    a \in SourceAttrMaps, kids \in SourceForestsOfSize(n - 1)}
SourceForestsOfSize(m) ==
    IF m = 0 THEN {<<>>}
    ELSE {f \in UNION {{<<t>> \o g : t \in SourceDocsOfSize(k),
                                     g \in SourceForestsOfSize(m - k)} : k \in 1..m}
            : NoTextBeforeText(f)}

RECURSIVE WriteForest(_, _, _)
\* the source text of top-level nodes: white space `mid` after each element
\* but the last, `last` after the last one
WriteForest(f, mid, last) ==
    IF f = <<>> THEN <<>>
    ELSE Serialized(f[1])
           \o (IF f[1].kind = "Text" THEN <<>> ELSE IF Len(f) = 1 THEN last ELSE mid)
           \o WriteForest(Tail(f), mid, last)

WriteSource(f, pre, mid, last) ==
    Bytes(pre \o (IF f = <<>> THEN last ELSE WriteForest(f, mid, last)))

\* the nodes and the source of tests::parse_simple
ParseSimpleForest ==
    <<ElemNode(STR_p, EmptyMap, <<TextNode(<<112, 49>>)>>),
      ElemNode(STR_p, EmptyMap, <<TextNode(<<112, 50>>)>>),
      ElemNode(STR_p, [n \in {STR_a} |-> STR_b], <<TextNode(<<112, 51>>)>>)>>

ParseSimpleSource ==
    <<10, 60, 112, 62, 112, 49, 60, 47, 112, 62, 10, 60, 112, 62, 112, 50, 60, 47, 112, 62, 10, 60, 112, 32, 97, 61, 34, 98, 34, 62, 112, 51, 60, 47, 112, 62, 10, 32, 32, 32, 32, 32, 32, 32, 32>>

SourceCases ==
    {[forest |-> f, source |-> WriteSource(f, pre, mid, last)] :
        f \in UNION {SourceForestsOfSize(m) : m \in 0..MaxSourceNodes},
        pre \in {<<>>, <<10>>}, mid \in {<<>>, <<32>>}, last \in {<<>>, <<32, 10>>}}
      \cup {[forest |-> ParseSimpleForest, source |-> Bytes(ParseSimpleSource)],
            [forest |-> ParseSimpleForest,
             source |-> WriteSource(ParseSimpleForest, <<>>, <<>>, <<>>)]}

InitParser ==
    /\ \E c \in SourceCases : forest = c.forest /\ source = c.source
    /\ pos = 0
    /\ status = "ready"
    /\ consumed = None
    /\ parsed = "no"
    /\ doc = NotRun
    /\ hashOrder \in {<<STR_c, STR_ab, STR_a>>}
    /\ text = None
    /\ LayoutIdle
    /\ StyleIdle

\* a call of consume_char while pos < input.len(): it returns
CallConsumeChar ==
    /\ status = "ready" /\ parsed = "no" /\ pos < Len(source)
    /\ ConsumeChar(source, pos).ok
    /\ pos' = ConsumeChar(source, pos).pos
    /\ consumed' = Some([from |-> pos, char |-> ConsumeChar(source, pos).v])
    /\ UNCHANGED <<forest, source, status, parsed, doc, hashOrder, text,
                   layoutVars, styleVars>>

\* a call of consume_char while pos < input.len(): the slice panics
CallConsumeCharPanics ==
    /\ status = "ready" /\ parsed = "no" /\ pos < Len(source)
    /\ ~ConsumeChar(source, pos).ok
    /\ status' = "panic"
    /\ UNCHANGED <<forest, source, pos, consumed, parsed, doc, hashOrder, text,
                   layoutVars, styleVars>>

\* Parser::parse(source)
CallParse ==
    /\ status = "ready" /\ parsed = "no" /\ pos = 0
    /\ LET r == Parse(source) IN
         /\ parsed' = IF r.ok THEN "ok" ELSE "panic"
         /\ doc' = IF r.ok THEN r.v ELSE NotRun
    /\ UNCHANGED <<forest, source, pos, status, consumed, hashOrder, text,
                   layoutVars, styleVars>>

NextParser ==
    \/ CallConsumeChar
    \/ CallConsumeCharPanics
    \/ CallParse
    \/ Format

SpecParser == InitParser /\ [][NextParser]_vars

\* C7: parse returns the one top-level node of the source, or an html
\* element holding its top-level nodes in order; white space around them
\* makes no node; the source of parse_simple is written back as in the test.
C7_ParseReturnsTopLevelNodes ==
    parsed /= "no" =>
        /\ parsed = "ok"
        /\ doc = (IF Len(forest) = 1 THEN forest[1]
                  ELSE ElemNode(STR_html, EmptyMap, forest))
        /\ (forest = ParseSimpleForest /\ text.some) =>
             text.v = <<60, 104, 116, 109, 108, 62, 60, 112, 62, 112, 49, 60, 47, 112, 62, 60, 112, 62, 112, 50, 60, 47, 112, 62, 60, 112, 32, 97, 61, 34, 98, 34, 62, 112, 51, 60, 47, 112, 62, 60, 47, 104, 116, 109, 108, 62>>

\* C10: consume_char leaves pos within the input, on a character boundary,
\* and past the character it returned by that character's width in bytes.
C10_ConsumeCharAdvancesByWidth ==
    status /= "idle" =>
        /\ pos <= Len(source)
        /\ IsCharBoundary(source, pos)
        /\ consumed.some => pos = consumed.v.from + LenUtf8(consumed.v.char)

====
